---- MODULE Spec2Model ----
(***************************************************************************)
(* A model of the gdb-command library (src/src/lib.rs): the command        *)
(* builder and the output demultiplexer of GdbCommand, the equality and    *)
(* hash of StacktraceEntry, the MappedFiles table (from_gdb, find) and the *)
(* Stacktrace operations (from_gdb, compute_module_offsets).               *)
(*                                                                         *)
(* Text is modelled as a sequence of one-character strings, so that        *)
(* splitting, trimming, formatting, parsing and regular expression         *)
(* matching are computed the way the code computes them.                   *)
(***************************************************************************)
EXTENDS Integers, Sequences, FiniteSets, TLC

(***************************************************************************)
(* Bounds of the model.                                                    *)
(***************************************************************************)
\* Largest number of commands registered before launch.
MaxCmds == 2
\* Largest number of lines of raw debugger output.
MaxLines == 5
\* Largest number of lines of a raw output that holds rarer lines.
MaxOddLines == 2
\* Largest number of builder calls on one GdbCommand.
MaxCalls == 3
\* Largest address, offset, line and column of the frames compared.
MaxEqWord == 1
\* The largest u64 of tables and traces: u64::MAX, scaled down.
MaxWord == 3
\* Largest number of regions of a table.
MaxRegions == 2
\* Largest number of frames of a trace.
MaxFrames == 2
\* Largest number of lines of a trace text.
MaxTraceLines == 3
\* Largest number of lines of a mapping text.
MaxMapLines == 4
\* Largest number of data lines of a mapping text that is resolved against.
MaxResolveLines == 2

(***************************************************************************)
(* Small helpers on integers and sequences.                                *)
(***************************************************************************)
SetMin(S) == CHOOSE x \in S : \A y \in S : x <= y

SetMax(S) == CHOOSE x \in S : \A y \in S : x >= y

\* Rust's Option and Result values.
None == [some |-> FALSE]

Some(v) == [some |-> TRUE, val |-> v]

Ok(v) == [kind |-> "Ok", val |-> v]

Err(e) == [kind |-> "Err", err |-> e]

\* A panic (unwrap on Err, slice index out of range, arithmetic overflow).
Panic(why) == [kind |-> "Panic", why |-> why]

(***************************************************************************)
(* Characters and strings.                                                 *)
(***************************************************************************)
DecDigits == <<"0", "1", "2", "3", "4", "5", "6", "7", "8", "9">>

AsciiDigit == {DecDigits[i] : i \in 1..10}

\* A decimal digit outside ASCII (ARABIC-INDIC DIGIT THREE), which the
\* regex crate's Unicode-aware \d matches and str::parse rejects.
ArabicThree == "U+0663"

UnicodeDigit == AsciiDigit \cup {ArabicThree}

HexLower == AsciiDigit \cup {"a", "b", "c", "d", "e", "f"}

HexUpper == {"A", "B", "C", "D", "E", "F"}

\* char::is_whitespace, as used by str::trim and by the regex class \s.
WhiteSpace == {" ", "\t", "\n", "\r"}

\* The value of a digit character in the given radix, or -1 (char::to_digit).
ToDigit(c, radix) ==
  LET v == IF c \in AsciiDigit
           THEN (CHOOSE i \in 1..10 : DecDigits[i] = c) - 1
           ELSE CASE c \in {"a", "A"} -> 10
                  [] c \in {"b", "B"} -> 11
                  [] c \in {"c", "C"} -> 12
                  [] c \in {"d", "D"} -> 13
                  [] c \in {"e", "E"} -> 14
                  [] c \in {"f", "F"} -> 15
                  [] OTHER -> -1
  IN IF v < radix THEN v ELSE -1

\* format!("{}", n) of an unsigned integer.
RECURSIVE DecStr(_)
DecStr(n) ==
  IF n < 10 THEN <<DecDigits[n + 1]>>
  ELSE DecStr(n \div 10) \o <<DecDigits[(n % 10) + 1]>>

\* str::split(c): the pieces between the occurrences of c, always at least one.
Split(s, c) ==
  LET P == {i \in 1..Len(s) : s[i] = c}
      n == Cardinality(P)
      pos(k) == IF k = 0 THEN 0
                ELSE IF k = n + 1 THEN Len(s) + 1
                ELSE CHOOSE p \in P : Cardinality({q \in P : q <= p}) = k
  IN [k \in 1..(n + 1) |-> SubSeq(s, pos(k - 1) + 1, pos(k) - 1)]

\* str::trim: leading and trailing white space removed.
Trim(s) ==
  LET keep == {i \in 1..Len(s) : s[i] \notin WhiteSpace}
  IN IF keep = {} THEN <<>> ELSE SubSeq(s, SetMin(keep), SetMax(keep))

\* [String]::join(sep).
RECURSIVE Join(_, _)
Join(pieces, sep) ==
  IF pieces = <<>> THEN <<>>
  ELSE IF Len(pieces) = 1 THEN pieces[1]
  ELSE pieces[1] \o sep \o Join(Tail(pieces), sep)

\* str::contains(pat).
Contains(s, pat) ==
  \E i \in 1..(Len(s) - Len(pat) + 1) : SubSeq(s, i, i + Len(pat) - 1) = pat

\* Vec::retain(|x| !x.is_empty()).
RetainNonEmpty(v) == SelectSeq(v, LAMBDA x : x # <<>>)

(***************************************************************************)
(* Parsing of unsigned integers (core::num::from_str_radix for u64 and     *)
(* usize). A parsed value is kept as its canonical digit string, the width *)
(* of the type being 64 bits, more than the checker's integers hold:       *)
(* NumVal converts the values that are small enough.                       *)
(***************************************************************************)
\* u64::MAX in decimal and in hexadecimal.
U64MaxDec == <<"1", "8", "4", "4", "6", "7", "4", "4", "0", "7", "3", "7", "0", "9", "5", "5", "1", "6", "1", "5">>

U64MaxHex == <<"f", "f", "f", "f", "f", "f", "f", "f", "f", "f", "f", "f", "f", "f", "f", "f">>

\* Leading zeros removed; "0" for zero.
StripZeros(w) ==
  LET nz == {i \in 1..Len(w) : w[i] # "0"}
  IN IF nz = {} THEN <<"0">> ELSE SubSeq(w, SetMin(nz), Len(w))

\* a > b for digit strings of the same length.
DigitsGreater(a, b, radix) ==
  \E i \in 1..Len(a) :
    /\ ToDigit(a[i], radix) > ToDigit(b[i], radix)
    /\ \A j \in 1..(i - 1) : ToDigit(a[j], radix) = ToDigit(b[j], radix)

\* from_str_radix::<u64>(w, radix): Ok(canonical digits) or Err(kind).
ParseU64(w, radix) ==
  LET body == IF w # <<>> /\ w[1] = "+" /\ Len(w) > 1 THEN Tail(w) ELSE w
      max == IF radix = 16 THEN U64MaxHex ELSE U64MaxDec
      canon == StripZeros(body)
  IN IF w = <<>> THEN Err("Empty")
     ELSE IF \E i \in 1..Len(body) : ToDigit(body[i], radix) < 0
          THEN Err("InvalidDigit")
     ELSE IF \/ Len(canon) > Len(max)
             \/ Len(canon) = Len(max) /\ DigitsGreater(canon, max, radix)
          THEN Err("PosOverflow")
     ELSE Ok(canon)

\* The number a canonical digit string denotes.
RECURSIVE NumVal(_, _)
NumVal(w, radix) ==
  IF w = <<>> THEN 0
  ELSE NumVal(SubSeq(w, 1, Len(w) - 1), radix) * radix + ToDigit(w[Len(w)], radix)

(***************************************************************************)
(* Regular expressions (the regex crate, leftmost-first semantics). An     *)
(* expression is a sequence of nodes: a literal, a greedy repetition of a  *)
(* character class, a greedy optional group, the marks of a capture group, *)
(* the end anchor. Every expression of the library starts with ^, so a     *)
(* match is tried at the first character only.                             *)
(***************************************************************************)
Lit(w) == [t |-> "lit", w |-> w]

\* A class: the characters of s, or with neg every character not in s.
Class(s) == [neg |-> FALSE, s |-> s]

NotClass(s) == [neg |-> TRUE, s |-> s]

\* x* (min 0) and x+ (min 1) over a character class.
Rep(c, min) == [t |-> "rep", c |-> c, min |-> min]

Opt(rs) == [t |-> "opt", rs |-> rs]

Open(g) == [t |-> "open", g |-> g]

Close(g) == [t |-> "close", g |-> g]

Eol == [t |-> "eol"]

\* The classes the library's expressions use.
Sp == Class({" "})

Dig09 == Class(AsciiDigit)

HexLow == Class(HexLower)

\* \d and \s are Unicode-aware in the regex crate.
DigU == Class(UnicodeDigit)

SpaceU == Class(WhiteSpace)

\* . matches any character but a line feed.
AnyChar == NotClass({"\n"})

InClass(ch, c) == (ch \in c.s) # c.neg

NoMatch == [ok |-> FALSE, caps |-> <<>>]

\* The match of the nodes rs against s from position i on, with the groups
\* captured so far: the first success in backtracking order.
RECURSIVE Match(_, _, _, _), RepFrom(_, _, _, _, _, _)
Match(rs, s, i, caps) ==
  IF rs = <<>> THEN [ok |-> TRUE, caps |-> caps]
  ELSE
    LET r == Head(rs)
        rest == Tail(rs)
    IN CASE r.t = "lit" ->
              IF i + Len(r.w) - 1 <= Len(s) /\ SubSeq(s, i, i + Len(r.w) - 1) = r.w
              THEN Match(rest, s, i + Len(r.w), caps)
              ELSE NoMatch
         [] r.t = "rep" ->
              LET bad == {j \in i..Len(s) : ~InClass(s[j], r.c)}
                  run == IF bad = {} THEN Len(s) - i + 1 ELSE SetMin(bad) - i
              IN RepFrom(rest, s, i, run, r.min, caps)
         [] r.t = "opt" ->
              LET a == Match(r.rs \o rest, s, i, caps)
              IN IF a.ok THEN a ELSE Match(rest, s, i, caps)
         [] r.t = "open" ->
              Match(rest, s, i, [caps EXCEPT ![r.g] = <<i, 0>>])
         [] r.t = "close" ->
              Match(rest, s, i, [caps EXCEPT ![r.g] = <<caps[r.g][1], i>>])
         [] r.t = "eol" ->
              IF i = Len(s) + 1 THEN Match(rest, s, i, caps) ELSE NoMatch

\* A greedy repetition that may take k characters: the longest first, one
\* character given back at a time while the rest does not match.
RepFrom(rest, s, i, k, min, caps) ==
  IF k < min THEN NoMatch
  ELSE LET m == Match(rest, s, i + k, caps)
       IN IF m.ok THEN m ELSE RepFrom(rest, s, i, k - 1, min, caps)

\* Regex::captures of an expression with ng groups: None, or the groups.
Captures(rs, ng, s) ==
  LET m == Match(rs, s, 1, [g \in 1..ng |-> <<0, 0>>])
  IN IF m.ok THEN Some([text |-> s, caps |-> m.caps]) ELSE None

\* Captures::get(g): whether the group took part, and its text.
HasGroup(c, g) == c.caps[g][2] # 0

Group(c, g) == SubSeq(c.text, c.caps[g][1], c.caps[g][2] - 1)

(***************************************************************************)
(* The state.                                                              *)
(***************************************************************************)
VARIABLES
  \* GdbCommand: the -ex parameters, the stdin file and the number of
  \* registered commands (exec_type is read by raw() only).
  args, stdin, commands_cnt,
  \* History: the builder calls made so far, in order.
  calls,
  \* launch(): the lines of the raw output and the value returned.
  lines, results,
  \* Two StacktraceEntry values, the value of frame_a == frame_b, and what
  \* Hash::hash of each has written to its hasher.
  frame_a, frame_b, eq_ab, hash_a, hash_b,
  \* A MappedFiles table, a Stacktrace, the last find (address and value
  \* returned) and how compute_module_offsets ended.
  mappings, stacktrace, found, offsets_done,
  \* The text given to from_gdb and the value returned.
  text, parsed

session == <<args, stdin, commands_cnt, calls>>

launched == <<lines, results>>

frames == <<frame_a, frame_b, eq_ab, hash_a, hash_b>>

tables == <<mappings, stacktrace, found, offsets_done>>

parsing == <<text, parsed>>

vars == <<session, launched, frames, tables, parsing>>

\* An operation has not been called.
NotRun == [kind |-> "NotRun"]

\* StacktraceEntry::default() and DebugInfo::default().
DefaultDebugInfo == [file |-> <<>>, line |-> 0, column |-> 0]

DefaultEntry ==
  [address |-> 0, function |-> <<>>, module |-> <<>>, offset |-> 0,
   debug |-> DefaultDebugInfo]

\* The parts of the state the operations of a specification do not use,
\* before any use.
IdleBut(used) ==
  /\ IF "session" \in used THEN TRUE
     ELSE args = <<>> /\ stdin = None /\ commands_cnt = 0 /\ calls = <<>>
  /\ IF "launched" \in used THEN TRUE
     ELSE lines = <<>> /\ results = NotRun
  /\ IF "frames" \in used THEN TRUE
     ELSE /\ frame_a = DefaultEntry /\ frame_b = DefaultEntry
          /\ eq_ab = None /\ hash_a = None /\ hash_b = None
  /\ IF "tables" \in used THEN TRUE
     ELSE /\ mappings = <<>> /\ stacktrace = <<>>
          /\ found = NotRun /\ offsets_done = "NotRun"
  /\ IF "parsing" \in used THEN TRUE
     ELSE text = <<>> /\ parsed = NotRun

(***************************************************************************)
(* GdbCommand: the command builder.                                        *)
(***************************************************************************)
DashEx == <<"-", "e", "x">>

\* The text of the two sentinel commands, up to the index.
StartCmdPrefix == <<"p", " ", "\"", "g", "d", "b", "-", "c", "o", "m", "m", "a", "n", "d", "-", "s", "t", "a", "r", "t", "-">>

EndCmdPrefix == <<"p", " ", "\"", "g", "d", "b", "-", "c", "o", "m", "m", "a", "n", "d", "-", "e", "n", "d", "-">>

Quote == <<"\"">>

\* The commands of the wrappers of ex.
WrapperCmd ==
  [bt |-> <<"b", "t">>,
   disassembly |-> <<"x", "/", "1", "6", "i", " ", "$", "p", "c">>,
   regs |-> <<"i", " ", "r">>,
   mappings |-> <<"i", "n", "f", "o", " ", "p", "r", "o", "c", " ", "m", "a", "p", "p", "i", "n", "g", "s">>,
   cmdline |-> <<"i", "n", "f", "o", " ", "p", "r", "o", "c", " ", "c", "m", "d", "l", "i", "n", "e">>,
   env |-> <<"s", "h", "o", "w", " ", "e", "n", "v", "i", "r", "o", "n", "m", "e", "n", "t">>,
   status |-> <<"i", "n", "f", "o", " ", "p", "r", "o", "c", " ", "s", "t", "a", "t", "u", "s">>,
   sources |-> <<"i", "n", "f", "o", " ", "s", "o", "u", "r", "c", "e", "s">>]

CmdList == <<"l", "i", "s", "t">>

CmdListPrefix == <<"l", "i", "s", "t", " ">>

\* GdbCommand::new: no parameters, no stdin, no commands.
new == [args |-> <<>>, stdin |-> None, commands_cnt |-> 0]

\* A mutant of ex: the end sentinel embeds the index of the next command.
ex_EndOffByOne(self, cmd) ==
  [self EXCEPT
     !.args = @ \o <<DashEx, StartCmdPrefix \o DecStr(self.commands_cnt) \o Quote,
                     DashEx, cmd,
                     DashEx, EndCmdPrefix \o DecStr(self.commands_cnt + 1) \o Quote>>,
     !.commands_cnt = @ + 1]

\* GdbCommand::ex: the command between its two sentinels, and the count.
ex(self, cmd) ==
  [self EXCEPT
     !.args = @ \o <<DashEx, StartCmdPrefix \o DecStr(self.commands_cnt) \o Quote,
                     DashEx, cmd,
                     DashEx, EndCmdPrefix \o DecStr(self.commands_cnt) \o Quote>>,
     !.commands_cnt = @ + 1]

\* GdbCommand::stdin.
set_stdin(self, file) == [self EXCEPT !.stdin = file]

\* GdbCommand::r: run, reading the stdin file when there is one.
r(self) ==
  LET run_command == IF self.stdin.some
                     THEN <<"r", " ", "<", " ">> \o self.stdin.val
                     ELSE <<"r">>
  IN [self EXCEPT !.args = @ \o <<DashEx, run_command>>]

\* GdbCommand::c.
c(self) == [self EXCEPT !.args = @ \o <<DashEx, <<"c">>>>]

\* GdbCommand::bmain.
bmain(self) == [self EXCEPT !.args = @ \o <<DashEx, <<"b", " ", "m", "a", "i", "n">>>>]

\* GdbCommand::list.
list(self, location) ==
  IF location.some THEN ex(self, CmdListPrefix \o location.val)
  ELSE ex(self, CmdList)

\* The GdbCommand the variables hold.
Self == [args |-> args, stdin |-> stdin, commands_cnt |-> commands_cnt]

\* The builder call `name` (with its argument) made on the GdbCommand.
Call(name, arg, next) ==
  /\ Len(calls) < MaxCalls
  /\ args' = next.args
  /\ stdin' = next.stdin
  /\ commands_cnt' = next.commands_cnt
  /\ calls' = Append(calls, [name |-> name, arg |-> arg])
  /\ UNCHANGED <<launched, frames, tables, parsing>>

\* The inputs of the builder: commands, list locations and stdin files.
UserCmds == {<<"p", " ", "$", "p", "c">>, <<"p", " ", "\"", "g", "d", "b", "-", "c", "o", "m", "m", "a", "n", "d", "-", "s", "t", "a", "r", "t", "-", "0", "\"">>}

Locations == {None, Some(<<"m", "a", "i", "n", ".", "c", ":", "5">>)}

StdinFiles == {None, Some(<<"/", "t", "m", "p", "/", "i", "n">>)}

Ex == \E cmd \in UserCmds : Call("ex", cmd, ex(Self, cmd))

Bt == Call("bt", WrapperCmd.bt, ex(Self, WrapperCmd.bt))

Disassembly == Call("disassembly", WrapperCmd.disassembly, ex(Self, WrapperCmd.disassembly))

Regs == Call("regs", WrapperCmd.regs, ex(Self, WrapperCmd.regs))

Mappings == Call("mappings", WrapperCmd.mappings, ex(Self, WrapperCmd.mappings))

Cmdline == Call("cmdline", WrapperCmd.cmdline, ex(Self, WrapperCmd.cmdline))

Env == Call("env", WrapperCmd.env, ex(Self, WrapperCmd.env))

Status == Call("status", WrapperCmd.status, ex(Self, WrapperCmd.status))

Sources == Call("sources", WrapperCmd.sources, ex(Self, WrapperCmd.sources))

List ==
  \E loc \in Locations :
    Call("list", IF loc.some THEN CmdListPrefix \o loc.val ELSE CmdList,
         list(Self, loc))

R == Call("r", <<>>, r(Self))

C == Call("c", <<>>, c(Self))

Bmain == Call("bmain", <<>>, bmain(Self))

Stdin == \E file \in StdinFiles : Call("stdin", <<>>, set_stdin(Self, file))

InitBuilder ==
  /\ args = new.args
  /\ stdin = new.stdin
  /\ commands_cnt = new.commands_cnt
  /\ calls = <<>>
  /\ IdleBut({"session"})

NextBuilder ==
  \/ Ex \/ Bt \/ Disassembly \/ Regs \/ Mappings \/ Cmdline \/ Env
  \/ Status \/ Sources \/ List \/ R \/ C \/ Bmain \/ Stdin

\* The builder: any sequence of at most MaxCalls calls on a new GdbCommand.
SpecBuilder == InitBuilder /\ [][NextBuilder]_vars

(***************************************************************************)
(* GdbCommand::launch: the demultiplexing of the raw output.               *)
(***************************************************************************)
StartMarker == <<"\"", "g", "d", "b", "-", "c", "o", "m", "m", "a", "n", "d", "-", "s", "t", "a", "r", "t", "-">>

EndMarker == <<"\"", "g", "d", "b", "-", "c", "o", "m", "m", "a", "n", "d", "-", "e", "n", "d", "-">>

\* ^\$\d+\s*=\s*"gdb-command-start-(\d+)"$
re_start ==
  <<Lit(<<"$">>), Rep(DigU, 1), Rep(SpaceU, 0), Lit(<<"=">>), Rep(SpaceU, 0),
    Lit(StartMarker), Open(1), Rep(DigU, 1), Close(1), Lit(Quote), Eol>>

\* ^\$\d+\s*=\s*"gdb-command-end-(\d+)"$
re_end ==
  <<Lit(<<"$">>), Rep(DigU, 1), Rep(SpaceU, 0), Lit(<<"=">>), Rep(SpaceU, 0),
    Lit(EndMarker), Open(1), Rep(DigU, 1), Close(1), Lit(Quote), Eol>>

\* str::parse::<usize>, usize being 64 bits wide.
ParseUsize(w) == ParseU64(w, 10)

\* idx < cnt for a parsed index and a (small) count.
IdxLess(idx, cnt) == Len(idx) <= 9 /\ NumVal(idx, 10) < cnt

\* The loop variables before the first line: start = 0, cmd_idx = 0, and
\* one empty result for each command.
LoopInit(cnt) ==
  [start |-> 0, cmd_idx |-> <<"0">>, results |-> [k \in 1..cnt |-> <<>>]]

\* The lines the debugger prints in the model: what it prints for the
\* sentinel commands of index k and a line of a command's own output.
GdbValuePrefix == <<"$", "1", " ", "=", " ">>

StartLine(k) == GdbValuePrefix \o StartMarker \o DecStr(k) \o Quote

EndLine(k) == GdbValuePrefix \o EndMarker \o DecStr(k) \o Quote

PlainLine == <<"#", "0", " ", " ", "m", "a", "i", "n", " ", "(", ")">>

OutputLines ==
  {StartLine(k) : k \in 0..(MaxCmds - 1)} \cup {EndLine(k) : k \in 0..(MaxCmds - 1)}
    \cup {PlainLine}

\* Rarer lines: a start sentinel whose index is more than usize holds, an
\* end sentinel whose index is a digit outside ASCII, and a start sentinel
\* after a space (the expressions are anchored).
OddLines ==
  {GdbValuePrefix \o StartMarker \o <<"9", "9", "9", "9", "9", "9", "9", "9", "9", "9", "9", "9", "9", "9", "9", "9", "9", "9", "9", "9">> \o Quote,
   GdbValuePrefix \o EndMarker \o <<ArabicThree>> \o Quote,
   <<" ">> \o StartLine(0)}

AllLines == OutputLines \cup OddLines

\* The lines whose captures are computed once: the lines above and what
\* the debugger prints for the sentinel commands the builder can register.
KnownLines ==
  AllLines \cup {StartLine(k) : k \in 0..MaxCalls} \cup {EndLine(k) : k \in 0..MaxCalls}

\* The captures of the two expressions on the lines of the model, computed
\* once: Regex::captures is a function of the line alone.
StartCapsOf == [l \in KnownLines |-> Captures(re_start, 1, l)]

EndCapsOf == [l \in KnownLines |-> Captures(re_end, 1, l)]

re_start_captures(line) ==
  IF line \in KnownLines THEN StartCapsOf[line] ELSE Captures(re_start, 1, line)

re_end_captures(line) ==
  IF line \in KnownLines THEN EndCapsOf[line] ELSE Captures(re_end, 1, line)

\* A mutant of Between: the slice starts at the start sentinel.
Between_FromStart(ls, start, i) == SubSeq(ls, start + 1, i)

\* lines[start + 1..i], for start + 1 <= i (indices counted from 0).
Between(ls, start, i) == SubSeq(ls, start + 2, i)

\* The body of the loop for line i (counted from 0): the loop variables
\* after it, or the panic it raises.
LoopBody(ls, cnt, i, st) ==
  LET line == ls[i + 1]
      sc == re_start_captures(line)
      sp == ParseUsize(Group(sc.val, 1))
      st1 == IF sc.some THEN [st EXCEPT !.cmd_idx = sp.val, !.start = i] ELSE st
      ec == re_end_captures(line)
      ep == ParseUsize(Group(ec.val, 1))
  IN IF sc.some /\ sp.kind = "Err" THEN Panic("unwrap of a ParseIntError")
     ELSE IF ~ec.some THEN Ok(st1)
     ELSE IF ep.kind = "Err" THEN Panic("unwrap of a ParseIntError")
     ELSE IF ep.val = st1.cmd_idx /\ IdxLess(st1.cmd_idx, cnt)
     THEN IF st1.start + 1 > i
          THEN Panic("slice index starts after its end")
          ELSE Ok([st1 EXCEPT
                     !.results[NumVal(st1.cmd_idx, 10) + 1] =
                        Join(Between(ls, st1.start, i), <<"\n">>)])
     ELSE Ok(st1)

\* The loop from line i on.
RECURSIVE Loop(_, _, _, _)
Loop(ls, cnt, i, st) ==
  IF i >= Len(ls) THEN Ok(st.results)
  ELSE LET b == LoopBody(ls, cnt, i, st)
       IN IF b.kind = "Panic" THEN b ELSE Loop(ls, cnt, i + 1, b.val)

\* launch() once raw() has returned the output whose lines are ls:
\* Ok(results), or a panic.
launch(ls, cnt) == Loop(ls, cnt, 0, LoopInit(cnt))

\* The raw outputs: str::split('\n') yields at least one line. Up to
\* MaxLines lines of the common kind, or up to MaxOddLines lines of any kind.
RawOutputs ==
  UNION {[1..n -> OutputLines] : n \in 1..MaxLines}
    \cup UNION {[1..n -> AllLines] : n \in 1..MaxOddLines}

\* launch(): raw() returns an output and the loop demultiplexes it.
Launch ==
  /\ results = NotRun
  /\ \E out \in RawOutputs :
       /\ lines' = out
       /\ results' = launch(out, commands_cnt)
  /\ UNCHANGED <<session, frames, tables, parsing>>

\* launch(): raw() fails (no such file, the debugger cannot be run) and the
\* error is returned.
LaunchRawFails ==
  /\ results = NotRun
  /\ lines' = <<>>
  /\ results' = Err("raw")
  /\ UNCHANGED <<session, frames, tables, parsing>>

\* A GdbCommand with n commands registered by bt().
RECURSIVE AfterBt(_)
AfterBt(n) == IF n = 0 THEN new ELSE ex(AfterBt(n - 1), WrapperCmd.bt)

InitLaunch ==
  \E n \in 0..MaxCmds :
    /\ args = AfterBt(n).args
    /\ stdin = None
    /\ commands_cnt = AfterBt(n).commands_cnt
    /\ calls = [j \in 1..n |-> [name |-> "bt", arg |-> WrapperCmd.bt]]
    /\ IdleBut({"session"})

NextLaunch == Launch \/ LaunchRawFails

\* launch() on a GdbCommand with up to MaxCmds commands, for every raw
\* output of up to MaxLines lines.
SpecLaunch == InitLaunch /\ [][NextLaunch]_vars

(***************************************************************************)
(* Claims about launch (the demultiplexer).                                *)
(***************************************************************************)
\* The loop of launch ran: raw() returned an output.
Demultiplexed == results.kind \in {"Ok", "Panic"}

\* Line l is a start (end) sentinel line: it has the shape of the pattern.
IsStartShape(l) == re_start_captures(l).some

IsEndShape(l) == re_end_captures(l).some

\* Line l is the start (end) sentinel line of index k.
IsStartOf(l, k) ==
  /\ IsStartShape(l)
  /\ ParseUsize(Group(re_start_captures(l).val, 1)) = Ok(DecStr(k))

IsEndOf(l, k) ==
  /\ IsEndShape(l)
  /\ ParseUsize(Group(re_end_captures(l).val, 1)) = Ok(DecStr(k))

\* The positions of the sentinel lines of ls, in increasing order.
SentinelPositions(ls) ==
  LET P == {p \in 1..Len(ls) : IsStartShape(ls[p]) \/ IsEndShape(ls[p])}
  IN [j \in 1..Cardinality(P) |->
        CHOOSE p \in P : Cardinality({q \in P : q <= p}) = j]

\* The sentinel lines of ls are the n pairs start-0, end-0, ...,
\* start-(n-1), end-(n-1), in this order, and nothing else.
PairsInOrder(ls, n) ==
  LET sp == SentinelPositions(ls)
  IN /\ Len(sp) = 2 * n
     /\ \A k \in 0..(n - 1) :
          /\ IsStartOf(ls[sp[2 * k + 1]], k)
          /\ IsEndOf(ls[sp[2 * k + 2]], k)

\* C1: for N >= 1 registered commands and a raw output whose sentinel lines
\* are the N pairs in index order, launch returns N results, result k is the
\* lines strictly between start-k and end-k joined with line feeds, and no
\* line of a result is a sentinel line.
C1_PairsDemultiplexed ==
  (Demultiplexed /\ commands_cnt >= 1 /\ PairsInOrder(lines, commands_cnt)) =>
    LET sp == SentinelPositions(lines)
    IN /\ results.kind = "Ok"
       /\ Len(results.val) = commands_cnt
       /\ \A k \in 0..(commands_cnt - 1) :
            /\ results.val[k + 1] =
                 Join(SubSeq(lines, sp[2 * k + 1] + 1, sp[2 * k + 2] - 1), <<"\n">>)
            /\ \A l \in 1..Len(Split(results.val[k + 1], "\n")) :
                 /\ ~IsStartShape(Split(results.val[k + 1], "\n")[l])
                 /\ ~IsEndShape(Split(results.val[k + 1], "\n")[l])

\* Two commands, both pairs present, and output between the first pair.
C1_Witness ==
  /\ Demultiplexed
  /\ commands_cnt = 2
  /\ PairsInOrder(lines, 2)
  /\ results.kind = "Ok"
  /\ results.val[1] = PlainLine
  /\ results.val[2] = <<>>

\* C2: whatever the raw output and the number N of commands, the loop of
\* launch ends without a panic and returns exactly N strings.
C2_DemuxNeverFails ==
  Demultiplexed => (results.kind = "Ok" /\ Len(results.val) = commands_cnt)

\* Index k is closed by a matching pair: a start sentinel of k is followed
\* by an end sentinel of k with no start sentinel in between.
ClosedByPair(ls, k) ==
  \E p, q \in 1..Len(ls) :
    /\ p < q
    /\ IsStartOf(ls[p], k)
    /\ IsEndOf(ls[q], k)
    /\ \A m \in (p + 1)..(q - 1) : ~IsStartShape(ls[m])

\* C3: the result of every index below N that no matching pair closes is
\* the empty string.
C3_UnclosedIsEmpty ==
  results.kind = "Ok" =>
    \A k \in 0..(commands_cnt - 1) :
      ~ClosedByPair(lines, k) => results.val[k + 1] = <<>>

(***************************************************************************)
(* Claims about the builder.                                               *)
(***************************************************************************)
\* The calls that register a command: ex and its wrappers.
Registers(name) ==
  name \in {"ex", "bt", "regs", "disassembly", "mappings", "cmdline", "env",
            "status", "sources", "list"}

\* The number of parameters a call appends: a registered command is three
\* -ex pairs, r, c and bmain are one, stdin is none.
Width(call) ==
  IF Registers(call.name) THEN 6 ELSE IF call.name = "stdin" THEN 0 ELSE 2

\* The number of parameters appended by the calls before the j-th.
RECURSIVE Offset(_)
Offset(j) == IF j <= 1 THEN 0 ELSE Offset(j - 1) + Width(calls[j - 1])

\* The number of command-registering calls before the j-th.
IndexOf(j) == Cardinality({i \in 1..(j - 1) : Registers(calls[i].name)})

\* What the debugger prints for the command p "text": $1 = "text".
IsPrintCmd(cmd) == Len(cmd) > 2 /\ SubSeq(cmd, 1, 2) = <<"p", " ">>

Printed(cmd) == GdbValuePrefix \o SubSeq(cmd, 3, Len(cmd))

\* cmd is the start (end) sentinel command embedding k: what it prints is
\* the start (end) sentinel line of index k.
EmbedsStart(cmd, k) == IsPrintCmd(cmd) /\ IsStartOf(Printed(cmd), k)

EmbedsEnd(cmd, k) == IsPrintCmd(cmd) /\ IsEndOf(Printed(cmd), k)

IsSentinelCmd(cmd) ==
  IsPrintCmd(cmd) /\ (IsStartShape(Printed(cmd)) \/ IsEndShape(Printed(cmd)))

\* C4: after any sequence of builder calls, the k-th registering call has
\* appended -ex start-k, -ex command, -ex end-k next to each other,
\* commands_cnt is the number of registering calls (so the indices are
\* 0..commands_cnt-1 in increasing order), and r, c, bmain and stdin append
\* no sentinel and leave commands_cnt alone.
C4_SentinelsAroundCommands ==
  /\ commands_cnt = Cardinality({j \in 1..Len(calls) : Registers(calls[j].name)})
  /\ Len(args) = Offset(Len(calls) + 1)
  /\ \A j \in 1..Len(calls) :
       LET o == Offset(j)
           k == IndexOf(j)
       IN IF Registers(calls[j].name)
          THEN /\ args[o + 1] = DashEx
               /\ EmbedsStart(args[o + 2], k)
               /\ args[o + 3] = DashEx
               /\ args[o + 4] = calls[j].arg
               /\ args[o + 5] = DashEx
               /\ EmbedsEnd(args[o + 6], k)
          ELSE \A m \in (o + 1)..(o + Width(calls[j])) : ~IsSentinelCmd(args[m])

\* bt, then r, then regs: two commands registered around a run command.
C4_Witness ==
  /\ Len(calls) = 3
  /\ calls[1].name = "bt"
  /\ calls[2].name = "r"
  /\ calls[3].name = "regs"
  /\ commands_cnt = 2
  /\ Len(args) = 14

(***************************************************************************)
(* StacktraceEntry: equality and hash.                                     *)
(***************************************************************************)
\* PartialEq::eq of DebugInfo (derived): every field.
debug_eq(a, b) == a.file = b.file /\ a.line = b.line /\ a.column = b.column

\* PartialEq::eq of StacktraceEntry.
eq(self, other) ==
  IF self.debug.file # <<>> /\ other.debug.file # <<>>
  THEN debug_eq(self.debug, other.debug)
  ELSE IF /\ self.module # <<>>
          /\ other.module # <<>>
          /\ self.offset # 0
          /\ other.offset # 0
  THEN self.module = other.module /\ self.offset = other.offset
  ELSE self.address = other.address

\* What Hash::hash of a String and of a u64 write to the hasher.
HashStr(s) == [w |-> "str", v |-> s]

HashU64(n) == [w |-> "u64", v |-> n]

\* Hash::hash of StacktraceEntry: the hasher state after the writes.
hash(self, state) ==
  IF self.debug.file # <<>>
  THEN state \o <<HashStr(self.debug.file), HashU64(self.debug.line),
                  HashU64(self.debug.column)>>
  ELSE IF self.module # <<>> /\ self.offset # 0
  THEN state \o <<HashStr(self.module), HashU64(self.offset)>>
  ELSE state \o <<HashU64(self.address)>>

\* The frames compared in the model.
EqEntries ==
  {[address |-> a, function |-> <<>>, module |-> m, offset |-> o,
    debug |-> [file |-> f, line |-> l, column |-> col]] :
     a \in 0..MaxEqWord, o \in 0..MaxEqWord,
     l \in 0..MaxEqWord, col \in 0..MaxEqWord,
     m \in {<<>>, <<"a", ".", "s", "o">>, <<"b", ".", "s", "o">>},
     f \in {<<>>, <<"a", ".", "c">>, <<"b", ".", "c">>}}

\* frame_a == frame_b is evaluated.
EqFrames ==
  /\ eq_ab = None
  /\ eq_ab' = Some(eq(frame_a, frame_b))
  /\ UNCHANGED <<frame_a, frame_b, hash_a, hash_b, session, launched, tables, parsing>>

\* frame_a is hashed with a fresh hasher.
HashA ==
  /\ hash_a = None
  /\ hash_a' = Some(hash(frame_a, <<>>))
  /\ UNCHANGED <<frame_a, frame_b, eq_ab, hash_b, session, launched, tables, parsing>>

\* frame_b is hashed with a fresh hasher.
HashB ==
  /\ hash_b = None
  /\ hash_b' = Some(hash(frame_b, <<>>))
  /\ UNCHANGED <<frame_a, frame_b, eq_ab, hash_a, session, launched, tables, parsing>>

InitFrames ==
  /\ frame_a \in EqEntries
  /\ frame_b \in EqEntries
  /\ eq_ab = None
  /\ hash_a = None
  /\ hash_b = None
  /\ IdleBut({"frames"})

NextFrames == EqFrames \/ HashA \/ HashB

\* Two frames, compared and hashed in any order.
SpecFrames == InitFrames /\ [][NextFrames]_vars

\* C5: frames that are equal under eq write the same values to the hasher.
C5_EqualFramesHashAlike ==
  (eq_ab = Some(TRUE) /\ hash_a.some /\ hash_b.some) => hash_a = hash_b

(***************************************************************************)
(* MappedFiles::find and Stacktrace::compute_module_offsets. The u64       *)
(* values of a table and of a frame range over 0..MaxWord, MaxWord         *)
(* standing for u64::MAX: a sum above it overflows.                        *)
(***************************************************************************)
\* File::new.
File(start, end, offset, fname) ==
  [start |-> start, end |-> end, offset |-> offset, name |-> fname]

\* A mutant of find: the end address is taken to belong to the region.
RECURSIVE find_EndInclusive(_, _)
find_EndInclusive(self, addr) ==
  IF self = <<>> THEN None
  ELSE IF Head(self).start <= addr /\ Head(self).end >= addr THEN Some(Head(self))
  ELSE find_EndInclusive(Tail(self), addr)

\* MappedFilesExt::find: the first region, in table order, that holds addr.
RECURSIVE find(_, _)
find(self, addr) ==
  IF self = <<>> THEN None
  ELSE IF Head(self).start <= addr /\ Head(self).end > addr THEN Some(Head(self))
  ELSE find(Tail(self), addr)

\* compute_module_offsets from frame i on, word_max being the largest u64.
\* The sum of line 448 overflows above it: a build with overflow checks
\* panics there (the frames before i stay rewritten), a build without them
\* wraps.
RECURSIVE offsets_from(_, _, _, _, _)
offsets_from(self, i, maps, word_max, overflow_checks) ==
  IF i > Len(self) THEN [kind |-> "Ok", val |-> self]
  ELSE
    LET x == self[i]
        y == find(maps, x.address)
        sum == (x.address - y.val.start) + y.val.offset
    IN IF ~y.some THEN offsets_from(self, i + 1, maps, word_max, overflow_checks)
       ELSE IF sum > word_max /\ overflow_checks
       THEN [kind |-> "Panic", val |-> self]
       ELSE offsets_from([self EXCEPT ![i].offset = IF sum > word_max
                                                     THEN sum - word_max - 1
                                                     ELSE sum,
                                      ![i].module = y.val.name],
                         i + 1, maps, word_max, overflow_checks)

\* StacktraceExt::compute_module_offsets.
compute_module_offsets(self, maps, word_max, overflow_checks) ==
  offsets_from(self, 1, maps, word_max, overflow_checks)

\* The tables of the model: up to MaxRegions regions, in any order, of any
\* bounds (File::new checks nothing), at file offset 0 or MaxWord.
Files ==
  {File(s, e, o, <<"/", "b", "i", "n", "/", "a", "p", "p">>) : s \in 0..MaxWord, e \in 0..MaxWord, o \in {0, MaxWord}}

Tables == UNION {[1..n -> Files] : n \in 0..MaxRegions}

\* The traces of the model: up to MaxFrames frames, each with no module
\* yet or with the module and offset a sanitizer printed.
TraceEntries ==
  {[DefaultEntry EXCEPT !.address = a, !.function = <<"m", "a", "i", "n", " ", "(", ")">>,
                        !.module = mo[1], !.offset = mo[2]] :
     a \in 0..MaxWord, mo \in {<<<<>>, 0>>, <<<<"l", "i", "b", "o", "l", "d", ".", "s", "o">>, 1>>}}

Traces == UNION {[1..n -> TraceEntries] : n \in 0..MaxFrames}

\* mappings.find(addr).
Find ==
  /\ \E addr \in 0..MaxWord :
       found' = [kind |-> "Found", addr |-> addr, res |-> find(mappings, addr)]
  /\ UNCHANGED <<mappings, stacktrace, offsets_done, session, launched, frames, parsing>>

\* stacktrace.compute_module_offsets(&mappings), in a build with or without
\* overflow checks.
ComputeModuleOffsets ==
  /\ offsets_done = "NotRun"
  /\ \E overflow_checks \in BOOLEAN :
       LET res == compute_module_offsets(stacktrace, mappings, MaxWord, overflow_checks)
       IN /\ stacktrace' = res.val
          /\ offsets_done' = res.kind
  /\ UNCHANGED <<mappings, found, session, launched, frames, parsing>>

InitFind ==
  /\ mappings \in Tables
  /\ stacktrace = <<>>
  /\ found = NotRun
  /\ offsets_done = "NotRun"
  /\ IdleBut({"tables"})

\* find on every table of the model, for every address.
SpecFind == InitFind /\ [][Find]_vars

InitOffsets ==
  /\ mappings \in Tables
  /\ stacktrace \in Traces
  /\ found = NotRun
  /\ offsets_done = "NotRun"
  /\ IdleBut({"tables"})

\* compute_module_offsets on every trace and table of the model.
SpecOffsets == InitOffsets /\ [][ComputeModuleOffsets]_vars

(***************************************************************************)
(* Claims about find and compute_module_offsets.                           *)
(***************************************************************************)
\* The regions of the table that hold addr: start <= addr < end.
Holding(tbl, addr) ==
  {i \in 1..Len(tbl) : tbl[i].start <= addr /\ addr < tbl[i].end}

\* C6: find returns a region with start <= addr < end when there is one,
\* the first of them in table order, and None when there is none; the start
\* address belongs to a region and the end address does not.
C6_FindFirstHolding ==
  found.kind = "Found" =>
    /\ (Holding(mappings, found.addr) = {}) = (found.res = None)
    /\ Holding(mappings, found.addr) # {} =>
         found.res = Some(mappings[SetMin(Holding(mappings, found.addr))])
    /\ \A i \in 1..Len(mappings) :
         /\ (found.addr = mappings[i].start /\ mappings[i].start < mappings[i].end)
              => found.res # None
         /\ found.addr = mappings[i].end => found.res # Some(mappings[i])

\* Two different regions hold the address, which is the start of the first
\* and the end of neither, and the first one is returned.
C6_Witness ==
  /\ found.kind = "Found"
  /\ Len(mappings) = 2
  /\ mappings[1] # mappings[2]
  /\ Holding(mappings, found.addr) = {1, 2}
  /\ found.addr = mappings[1].start
  /\ found.res = Some(mappings[1])

\* C7: compute_module_offsets gives every frame whose address a region
\* holds the path of the region find returns and the offset
\* address - start + region offset, leaves the module and offset of the
\* other frames alone, and changes neither the address, function and debug
\* fields nor the number and order of the frames.
C7_OffsetsComputed ==
  [][(offsets_done = "NotRun" /\ offsets_done' # "NotRun") =>
       /\ offsets_done' = "Ok"
       /\ Len(stacktrace') = Len(stacktrace)
       /\ \A i \in 1..Len(stacktrace) :
            LET x == stacktrace[i]
                z == stacktrace'[i]
                y == find(mappings, x.address)
            IN /\ z.address = x.address
               /\ z.function = x.function
               /\ z.debug = x.debug
               /\ IF y.some
                  THEN /\ z.module = y.val.name
                       /\ z.offset = x.address - y.val.start + y.val.offset
                  ELSE z.module = x.module /\ z.offset = x.offset]_vars

(***************************************************************************)
(* StacktraceEntry::new: the eight expressions, in the order the code      *)
(* applies them, and the frame each builds.                                *)
(***************************************************************************)
\* A capture group around the nodes rs.
Grp(g, rs) == <<Open(g)>> \o rs \o <<Close(g)>>

\* ^ *#[0-9]+ *
FrameNo == <<Rep(Sp, 0), Lit(<<"#">>), Rep(Dig09, 1), Rep(Sp, 0)>>

\* (?:0x([0-9a-f]+) +in)?
OptAddrIn ==
  <<Opt(<<Lit(<<"0", "x">>)>> \o Grp(1, <<Rep(HexLow, 1)>>) \o <<Rep(Sp, 1), Lit(<<"i", "n">>)>>)>>

\* A mutant of re_asan_module: the text after "in" is not captured.
re_asan_module_NoFunctionGroup ==
  FrameNo \o <<Lit(<<"0", "x">>)>> \o Grp(1, <<Rep(HexLow, 1)>>) \o <<Rep(Sp, 0)>>
    \o <<Opt(<<Lit(<<"i", "n">>), Rep(Sp, 0), Rep(AnyChar, 1)>>)>>
    \o <<Rep(Sp, 0), Lit(<<"(">>)>> \o Grp(3, <<Rep(AnyChar, 0)>>)
    \o <<Lit(<<"+", "0", "x">>)>> \o Grp(4, <<Rep(HexLow, 1)>>) \o <<Lit(<<")">>)>>

\* 1. ^ *#[0-9]+ *0x([0-9a-f]+) *(?:in *(.+))? *\((.*)\+0x([0-9a-f]+)\)
re_asan_module ==
  FrameNo \o <<Lit(<<"0", "x">>)>> \o Grp(1, <<Rep(HexLow, 1)>>) \o <<Rep(Sp, 0)>>
    \o <<Opt(<<Lit(<<"i", "n">>), Rep(Sp, 0)>> \o Grp(2, <<Rep(AnyChar, 1)>>))>>
    \o <<Rep(Sp, 0), Lit(<<"(">>)>> \o Grp(3, <<Rep(AnyChar, 0)>>)
    \o <<Lit(<<"+", "0", "x">>)>> \o Grp(4, <<Rep(HexLow, 1)>>) \o <<Lit(<<")">>)>>

\* 4. ^ *#[0-9]+ *(?:0x([0-9a-f]+) +in)? *(.+) +at +(.+)
re_gdb_source ==
  FrameNo \o OptAddrIn \o <<Rep(Sp, 0)>> \o Grp(2, <<Rep(AnyChar, 1)>>)
    \o <<Rep(Sp, 1), Lit(<<"a", "t">>), Rep(Sp, 1)>> \o Grp(3, <<Rep(AnyChar, 1)>>)

\* 3. the expression of 4 followed by :(\d+)
re_gdb_line == re_gdb_source \o <<Lit(<<":">>)>> \o Grp(4, <<Rep(DigU, 1)>>)

\* 2. the expression of 3 followed by :(\d+)
re_gdb_line_column == re_gdb_line \o <<Lit(<<":">>)>> \o Grp(5, <<Rep(DigU, 1)>>)

\* ^ *#[0-9]+ *0x([0-9a-f]+) *in *([^ \(\)]+(?: *\(.*\))?) *([^\(\)]+)
AsanIn ==
  FrameNo \o <<Lit(<<"0", "x">>)>> \o Grp(1, <<Rep(HexLow, 1)>>)
    \o <<Rep(Sp, 0), Lit(<<"i", "n">>), Rep(Sp, 0)>>
    \o Grp(2, <<Rep(NotClass({" ", "(", ")"}), 1),
                Opt(<<Rep(Sp, 0), Lit(<<"(">>), Rep(AnyChar, 0), Lit(<<")">>)>>)>>)
    \o <<Rep(Sp, 0)>> \o Grp(3, <<Rep(NotClass({"(", ")"}), 1)>>)

\* 6. the expression above followed by :(\d+)
re_asan_line == AsanIn \o <<Lit(<<":">>)>> \o Grp(4, <<Rep(DigU, 1)>>)

\* 5. the expression of 6 followed by :(\d+)
re_asan_line_column == re_asan_line \o <<Lit(<<":">>)>> \o Grp(5, <<Rep(DigU, 1)>>)

\* 7. the expression above followed by $
re_asan_source == AsanIn \o <<Eol>>

\* 8. ^ *#[0-9]+ *(?:0x([0-9a-f]+) +in)? *([^ \(\)]+ *\(.*\))(?: +from +(.+))?
re_gdb_no_source ==
  FrameNo \o OptAddrIn \o <<Rep(Sp, 0)>>
    \o Grp(2, <<Rep(NotClass({" ", "(", ")"}), 1), Rep(Sp, 0), Lit(<<"(">>),
                Rep(AnyChar, 0), Lit(<<")">>)>>)
    \o <<Opt(<<Rep(Sp, 1), Lit(<<"f", "r", "o", "m">>), Rep(Sp, 1)>> \o Grp(3, <<Rep(AnyChar, 1)>>))>>

\* u64::from_str_radix(..).unwrap() and str::parse::<u64>().unwrap(): the
\* number, or the panic of unwrap on a ParseIntError.
UnwrapU64(w, radix) ==
  LET p == ParseU64(w, radix)
  IN IF p.kind = "Ok" THEN Ok(NumVal(p.val, radix))
     ELSE Panic("unwrap of a ParseIntError")

\* StacktraceEntry::new(entry): Ok(frame), the StacktraceParse error, or a
\* panic of one of the unwraps.
StacktraceEntry_new(entry) ==
  LET hex(cap, g) == IF HasGroup(cap.val, g) THEN UnwrapU64(Group(cap.val, g), 16) ELSE Ok(0)
      dec(cap, g) == IF HasGroup(cap.val, g) THEN UnwrapU64(Group(cap.val, g), 10) ELSE Ok(0)
      str(cap, g) == IF HasGroup(cap.val, g) THEN Trim(Group(cap.val, g)) ELSE <<>>
      stentry(address, function, module, offset, file, line, column) ==
        IF address.kind # "Ok" THEN address
        ELSE IF offset.kind # "Ok" THEN offset
        ELSE IF line.kind # "Ok" THEN line
        ELSE IF column.kind # "Ok" THEN column
        ELSE Ok([address |-> address.val, function |-> function,
                 module |-> module, offset |-> offset.val,
                 debug |-> [file |-> file, line |-> line.val,
                            column |-> column.val]])
      with_source(cap) ==
        stentry(hex(cap, 1), str(cap, 2), <<>>, Ok(0), str(cap, 3), dec(cap, 4), dec(cap, 5))
      c1 == Captures(re_asan_module, 4, entry)
      c2 == Captures(re_gdb_line_column, 5, entry)
      c3 == Captures(re_gdb_line, 5, entry)
      c4 == Captures(re_gdb_source, 5, entry)
      c5 == Captures(re_asan_line_column, 5, entry)
      c6 == Captures(re_asan_line, 5, entry)
      c7 == Captures(re_asan_source, 5, entry)
      c8 == Captures(re_gdb_no_source, 3, entry)
  IN IF c1.some
     THEN stentry(hex(c1, 1), str(c1, 2), str(c1, 3), hex(c1, 4), <<>>, Ok(0), Ok(0))
     ELSE IF c2.some THEN with_source(c2)
     ELSE IF c3.some THEN with_source(c3)
     ELSE IF c4.some THEN with_source(c4)
     ELSE IF c5.some THEN with_source(c5)
     ELSE IF c6.some THEN with_source(c6)
     ELSE IF c7.some THEN with_source(c7)
     ELSE IF c8.some
     THEN stentry(hex(c8, 1), str(c8, 2), str(c8, 3), Ok(0), <<>>, Ok(0), Ok(0))
     ELSE Err([tag |-> "StacktraceParse",
               msg |-> <<"C", "o", "u", "l", "d", "n", "'", "t", " ", "p", "a", "r", "s", "e", " ", "s", "t", "a", "c", "k", " ", "t", "r", "a", "c", "e", " ", "e", "n", "t", "r", "y", ":", " ">> \o entry])

(***************************************************************************)
(* Stacktrace::from_gdb.                                                   *)
(***************************************************************************)
\* A sanitizer frame with a function, a module and an offset.
AsanFooLine == <<"#", "1", " ", "0", "x", "0", "0", "0", "0", "0", "0", "0", "0", "0", "0", "4", "0", "1", "1", "a", "0", " ", "i", "n", " ", "f", "o", "o", " ", "(", "l", "i", "b", "f", "o", "o", ".", "s", "o", "+", "0", "x", "1", "a", "0", ")">>

\* The lines of the traces of the model: a sanitizer frame with module and
\* offset, debugger frames with and without source, indented and not, two
\* lines no expression matches, an empty and a blank line, and frames whose
\* address is more than u64 holds or whose line number is a digit outside
\* ASCII.
TraceLines ==
  {<<"#", "0", " ", "0", "x", "1", "a", " ", "i", "n", " ", "f", " ", "(", "m", "+", "0", "x", "2", ")">>,
   <<" ", " ", "#", "1", " ", " ", "0", "x", "2", " ", "i", "n", " ", "g", " ", "(", ")", " ", "a", "t", " ", "a", ".", "c", ":", "3", ":", "4">>,
   <<"#", "2", " ", "h", " ", "(", ")", " ", "f", "r", "o", "m", " ", "l", ".", "s", "o">>,
   AsanFooLine,
   <<"n", "o", "t", " ", "a", " ", "f", "r", "a", "m", "e">>,
   <<"#", "3", " ", "0", "x", "5">>,
   <<>>,
   <<" ", "\t">>,
   <<"#", "0", " ", "0", "x", "1", "1", "1", "1", "1", "1", "1", "1", "1", "1", "1", "1", "1", "1", "1", "1", "1", " ", "i", "n", " ", "f", " ", "(", "m", "+", "0", "x", "1", ")">>,
   <<"#", "1", " ", "g", " ", "(", ")", " ", "a", "t", " ", "a", ".", "c", ":", ArabicThree>>}

\* StacktraceEntry::new on the lines of the model, computed once.
EntryOf == [l \in {Trim(x) : x \in TraceLines} |-> StacktraceEntry_new(l)]

NewEntry(entry) ==
  IF entry \in DOMAIN EntryOf THEN EntryOf[entry] ELSE StacktraceEntry_new(entry)

\* The loop of from_gdb: the frames pushed so far, then the first result
\* of StacktraceEntry::new that is not Ok (the ? operator, or the panic).
RECURSIVE PushEntries(_, _)
PushEntries(entries, acc) ==
  IF entries = <<>> THEN Ok(acc)
  ELSE LET x == NewEntry(Head(entries))
       IN IF x.kind # "Ok" THEN x
          ELSE PushEntries(Tail(entries), Append(acc, x.val))

\* s.split(c).map(|s| s.trim().to_string()).collect().
SplitTrim(s, sep) ==
  LET pieces == Split(s, sep)
  IN [k \in DOMAIN pieces |-> Trim(pieces[k])]

\* The entries of from_gdb: the trimmed lines, the empty ones removed.
TrimmedLines(trace) == RetainNonEmpty(SplitTrim(trace, "\n"))

\* Stacktrace::from_gdb(trace).
Stacktrace_from_gdb(trace) == PushEntries(TrimmedLines(trace), <<>>)

\* The trace texts of the model: up to MaxTraceLines lines joined by \n.
\* Stacktrace::from_gdb is called on the text.
FromGdbTrace ==
  /\ parsed = NotRun
  /\ parsed' = Stacktrace_from_gdb(text)
  /\ UNCHANGED <<text, session, launched, frames, tables>>

InitTrace ==
  /\ text \in
       {Join(ls, <<"\n">>) : ls \in UNION {[1..n -> TraceLines] : n \in 1..MaxTraceLines}}
  /\ parsed = NotRun
  /\ IdleBut({"parsing"})

SpecTrace == InitTrace /\ [][FromGdbTrace]_vars

\* C8: from_gdb is all-or-nothing and keeps the order: when
\* StacktraceEntry::new accepts every non-empty trimmed line the result is
\* Ok with one frame per such line, in line order; when it rejects some
\* line the result is the error of the first rejected line.
C8_FromGdbAllOrNothing ==
  parsed # NotRun =>
    LET ls == TrimmedLines(text)
        res == [k \in 1..Len(ls) |-> NewEntry(ls[k])]
        rejected == {k \in 1..Len(ls) : res[k].kind = "Err"}
    IN /\ (\A k \in 1..Len(ls) : res[k].kind = "Ok")
            => parsed = Ok([k \in 1..Len(ls) |-> res[k].val])
       /\ rejected # {} => parsed = res[SetMin(rejected)]

(***************************************************************************)
(* MappedFiles::from_gdb.                                                  *)
(***************************************************************************)
\* The error `?` makes of a ParseIntError (the From impl of the error
\* module): the numeric-conversion error, carrying the kind.
IntError(kind) == [tag |-> "IntError", kind |-> kind]

\* s.clone().drain(2..).collect(): the text from byte 2 on. String::drain
\* panics when the string has fewer than 2 bytes or when byte 2 is inside
\* a character (a digit outside ASCII takes 2 bytes).
Drain2(w) ==
  LET bytes(ch) == IF ch = ArabicThree THEN 2 ELSE 1
  IN IF w = <<>> THEN Panic("range start index 2 out of range")
     ELSE IF bytes(w[1]) = 2 THEN Ok(Tail(w))
     ELSE IF Len(w) = 1 THEN Panic("range start index 2 out of range")
     ELSE IF bytes(w[2]) = 2 THEN Panic("assertion failed: self.is_char_boundary(start)")
     ELSE Ok(SubSeq(w, 3, Len(w)))

\* u64::from_str_radix(tok.clone().drain(2..).collect().as_str(), 16)?
HexField(tok) ==
  LET d == Drain2(tok)
      p == ParseU64(d.val, 16)
  IN IF d.kind # "Ok" THEN d
     ELSE IF p.kind # "Ok" THEN Err(IntError(p.err))
     ELSE Ok(NumVal(p.val, 16))

\* The columns of a line: split(' '), trimmed, the empty ones removed.
Columns(x) == RetainNonEmpty(SplitTrim(x, " "))

\* A mutant of FileOfLine: the offset is read from the third column.
FileOfLine_OffsetThird(x) ==
  LET filevec == Columns(x)
      start == HexField(filevec[1])
      end == HexField(filevec[2])
      offset == HexField(filevec[3])
  IN IF Len(filevec) < 4
     THEN Err([tag |-> "MappedFilesParse",
               msg |-> <<"E", "x", "p", "e", "c", "t", "e", "d", " ", "a", "t", " ", "l", "e", "a", "s", "t", " ", "4", " ", "c", "o", "l", "u", "m", "n", "s", " ", "i", "n", " ">> \o x])
     ELSE IF start.kind # "Ok" THEN start
     ELSE IF end.kind # "Ok" THEN end
     ELSE IF offset.kind # "Ok" THEN offset
     ELSE Ok(File(start.val, end.val, offset.val,
                  IF Len(filevec) = 5 THEN filevec[5] ELSE <<>>))

\* The body of the loop of from_gdb for the line x: Ok(File), an error, or
\* a panic.
FileOfLine(x) ==
  LET filevec == Columns(x)
      start == HexField(filevec[1])
      end == HexField(filevec[2])
      offset == HexField(filevec[4])
  IN IF Len(filevec) < 4
     THEN Err([tag |-> "MappedFilesParse",
               msg |-> <<"E", "x", "p", "e", "c", "t", "e", "d", " ", "a", "t", " ", "l", "e", "a", "s", "t", " ", "4", " ", "c", "o", "l", "u", "m", "n", "s", " ", "i", "n", " ">> \o x])
     ELSE IF start.kind # "Ok" THEN start
     ELSE IF end.kind # "Ok" THEN end
     ELSE IF offset.kind # "Ok" THEN offset
     ELSE Ok(File(start.val, end.val, offset.val,
                  IF Len(filevec) = 5 THEN filevec[5] ELSE <<>>))

\* The loop of from_gdb over the lines after the header.
RECURSIVE PushFiles(_, _)
PushFiles(hlp, files) ==
  IF hlp = <<>> THEN Ok(files)
  ELSE LET f == FileOfLine(Head(hlp))
       IN IF f.kind # "Ok" THEN f
          ELSE PushFiles(Tail(hlp), Append(files, f.val))

\* The positions of the lines holding "Start Addr".
HeaderPositions(hlp) ==
  {k \in 1..Len(hlp) : Contains(hlp[k], <<"S", "t", "a", "r", "t", " ", "A", "d", "d", "r">>)}

\* MappedFiles::from_gdb(mapping).
MappedFiles_from_gdb(mapping) ==
  LET hlp == SplitTrim(mapping, "\n")
      pos == HeaderPositions(hlp)
  IN IF pos = {}
     THEN Err([tag |-> "MappedFilesParse",
               msg |-> <<"C", "o", "u", "l", "d", "n", "'", "t", " ", "f", "i", "n", "d", " ", "S", "t", "a", "r", "t", " ", "A", "d", "d", "r", ":", " ">> \o mapping])
     ELSE PushFiles(SubSeq(hlp, SetMin(pos) + 1, Len(hlp)), <<>>)

\* The lines of the mapping texts of the model: a line before the header,
\* the header, data lines of five and of four columns, of three columns,
\* with a column that is not hexadecimal, with columns of one character,
\* with a start address above the end address, an empty and a blank line.
MapLines ==
  {<<"p", "r", "o", "c", "e", "s", "s", " ", "4", "2">>,
   <<" ", " ", "S", "t", "a", "r", "t", " ", "A", "d", "d", "r", " ", " ", " ", "E", "n", "d", " ", "A", "d", "d", "r", " ", " ", "S", "i", "z", "e", " ", "O", "f", "f", "s", "e", "t", " ", "o", "b", "j", "f", "i", "l", "e">>,
   <<"0", "x", "1", "0", " ", "0", "x", "2", "0", " ", "0", "x", "1", "0", " ", "0", "x", "0", " ", "/", "b", "i", "n", "/", "a", "p", "p">>,
   <<" ", " ", " ", "0", "x", "2", "0", " ", " ", " ", "0", "x", "3", "f", " ", "0", "x", "1", "f", " ", "0", "x", "4">>,
   <<"0", "x", "3", "0", " ", "0", "x", "4", "0", " ", "0", "x", "1", "0">>,
   <<"0", "x", "4", "0", " ", "0", "x", "z", "z", " ", "0", "x", "1", "0", " ", "0", "x", "0", " ", "/", "l", "i", "b", "/", "x">>,
   <<"1", " ", "2", " ", "3", " ", "4">>,
   <<"0", "x", "5", "0", " ", "0", "x", "4", "0", " ", "0", "x", "1", "0", " ", "0", "x", "0", " ", "/", "l", "i", "b", "/", "y">>,
   <<>>,
   <<" ", "\t">>}

\* The mapping texts of the model: up to MaxMapLines lines joined by \n.
\* MappedFiles::from_gdb is called on the text; the table it returns, when
\* it returns one, is the table of the later operations.
FromGdbMappings ==
  /\ parsed = NotRun
  /\ parsed' = MappedFiles_from_gdb(text)
  /\ mappings' = IF parsed'.kind = "Ok" THEN parsed'.val ELSE mappings
  /\ UNCHANGED <<text, stacktrace, found, offsets_done, session, launched, frames>>

InitMapParse ==
  /\ text \in
       {Join(ls, <<"\n">>) : ls \in UNION {[1..n -> MapLines] : n \in 1..MaxMapLines}}
  /\ parsed = NotRun
  /\ IdleBut({"parsing"})

SpecMapParse == InitMapParse /\ [][FromGdbMappings]_vars

(***************************************************************************)
(* Claims about MappedFiles::from_gdb.                                     *)
(***************************************************************************)
\* The non-empty trimmed lines after the first header line of the text.
DataLines(mapping) ==
  LET hlp == SplitTrim(mapping, "\n")
      pos == HeaderPositions(hlp)
  IN IF pos = {} THEN <<>>
     ELSE RetainNonEmpty(SubSeq(hlp, SetMin(pos) + 1, Len(hlp)))

HasHeader(mapping) == HeaderPositions(SplitTrim(mapping, "\n")) # {}

\* C9: when the text has a header line and every non-empty line after it is
\* a well-formed data line, from_gdb returns Ok with one region per
\* non-empty line after the header, in line order: the lines up to the
\* header and the empty or blank lines after it are skipped.
C9_EmptyLinesSkipped ==
  parsed # NotRun =>
    LET data == DataLines(text)
    IN (HasHeader(text) /\ \A k \in 1..Len(data) : FileOfLine(data[k]).kind = "Ok")
         => parsed = Ok([k \in 1..Len(data) |-> FileOfLine(data[k]).val])

\* A valid hexadecimal unsigned 64-bit number.
IsHexU64(w) ==
  /\ w # <<>>
  /\ \A i \in 1..Len(w) : w[i] \in HexLower \cup HexUpper
  /\ Len(StripZeros(w)) <= 16

\* A data line with fewer than four columns, or whose first, second or
\* fourth column is no hexadecimal number after its first two characters.
BadDataLine(x) ==
  \/ Len(Columns(x)) < 4
  \/ \E col \in {1, 2, 4} :
       ~IsHexU64(SubSeq(Columns(x)[col], 3, Len(Columns(x)[col])))

\* C10: from_gdb returns an error, as a value, whenever the text has no
\* header line or a data line after the header has fewer than four columns
\* or a first, second or fourth column that, its first two characters
\* stripped, is no hexadecimal u64; columns shorter than two characters
\* included.
C10_BadTextIsError ==
  parsed # NotRun =>
    ((~HasHeader(text) \/ \E k \in 1..Len(DataLines(text)) : BadDataLine(DataLines(text)[k]))
       => parsed.kind = "Err")

(***************************************************************************)
(* A table built from text and resolved against: from_gdb, then            *)
(* compute_module_offsets (which calls find) on a one-frame trace.         *)
(***************************************************************************)
\* The header of the debugger (info proc mappings) and a header with the
\* offset before a column of permissions.
ResolveHeaders ==
  {<<"S", "t", "a", "r", "t", " ", "A", "d", "d", "r", " ", " ", " ", "E", "n", "d", " ", "A", "d", "d", "r", " ", " ", " ", " ", " ", " ", " ", "S", "i", "z", "e", " ", " ", " ", " ", " ", "O", "f", "f", "s", "e", "t", " ", "o", "b", "j", "f", "i", "l", "e">>,
   <<"S", "t", "a", "r", "t", " ", "A", "d", "d", "r", " ", " ", " ", "E", "n", "d", " ", "A", "d", "d", "r", " ", " ", " ", " ", " ", " ", " ", "O", "f", "f", "s", "e", "t", " ", " ", "P", "e", "r", "m", "s", " ", " ", "P", "a", "t", "h">>}

\* A data line of the debugger: start, end, size, offset, path.
GdbDataLine == <<"0", "x", "0", "0", "4", "0", "0", "0", "0", "0", " ", " ", " ", "0", "x", "0", "0", "4", "0", "1", "0", "0", "0", " ", " ", " ", " ", " ", "0", "x", "1", "0", "0", "0", " ", " ", " ", " ", " ", "0", "x", "0", "0", "0", "0", " ", " ", "/", "b", "i", "n", "/", "a", "p", "p">>

\* A data line with the offset third and the permissions fourth.
PermsDataLine == <<"0", "x", "0", "0", "4", "0", "0", "0", "0", "0", " ", " ", " ", "0", "x", "0", "0", "4", "0", "1", "0", "0", "0", " ", " ", " ", " ", " ", "0", "x", "0", "0", "0", "0", " ", " ", "r", "-", "x", "p", " ", " ", " ", "/", "b", "i", "n", "/", "a", "p", "p">>

\* The data lines of the texts: the two above, the next region of the
\* same file, and a region with no path.
ResolveLines ==
  {GdbDataLine, PermsDataLine,
   <<"0", "x", "0", "0", "4", "0", "1", "0", "0", "0", " ", "0", "x", "0", "0", "4", "0", "2", "0", "0", "0", " ", "0", "x", "1", "0", "0", "0", " ", "0", "x", "1", "0", "0", "0", " ", "/", "b", "i", "n", "/", "a", "p", "p">>,
   <<"0", "x", "0", "0", "6", "0", "0", "0", "0", "0", " ", "0", "x", "0", "0", "6", "0", "1", "0", "0", "0", " ", "0", "x", "1", "0", "0", "0", " ", "0", "x", "0">>}

\* stacktrace.compute_module_offsets(&mappings) with the table from_gdb
\* returned. u64::MAX is more than the integers of the checker hold: the
\* largest of them is passed for it, far above every sum of values parsed
\* from the texts of the model.
ResolveOffsets ==
  /\ parsed.kind = "Ok"
  /\ offsets_done = "NotRun"
  /\ \E overflow_checks \in BOOLEAN :
       LET res == compute_module_offsets(stacktrace, mappings, 2147483647,
                                         overflow_checks)
       IN /\ stacktrace' = res.val
          /\ offsets_done' = res.kind
  /\ UNCHANGED <<mappings, found, parsing, session, launched, frames>>

\* The texts are a header and up to MaxResolveLines data lines; the
\* addresses resolved lie below, at the start of, inside and at the end of
\* the region 0x400000-0x401000, and inside the next one.
InitResolve ==
  /\ text \in
       {Join(<<h>> \o ls, <<"\n">>) :
          h \in ResolveHeaders,
          ls \in UNION {[1..n -> ResolveLines] : n \in 1..MaxResolveLines}}
  /\ parsed = NotRun
  /\ mappings = <<>>
  /\ stacktrace \in
       {<<[DefaultEntry EXCEPT !.address = NumVal(w, 16)]>> :
          w \in {<<"3", "f", "f", "f", "f", "f">>, <<"4", "0", "0", "0", "0", "0">>, <<"4", "0", "0", "5", "0", "0">>, <<"4", "0", "1", "0", "0", "0">>, <<"4", "0", "1", "5", "0", "0">>}}
  /\ found = NotRun
  /\ offsets_done = "NotRun"
  /\ IdleBut({"parsing", "tables"})

SpecResolve == InitResolve /\ [][FromGdbMappings \/ ResolveOffsets]_vars

\* C11, as stated: from_gdb succeeds on the text with the header
\* 'Start Addr End Addr Offset Perms Path' and the data line
\* '0x00400000 0x00401000 0x0000 r-xp /bin/app', and resolving 0x400500
\* against the table yields module /bin/app and offset 0x500.
C11_PermsTextResolves ==
  (text = Join(<<<<"S", "t", "a", "r", "t", " ", "A", "d", "d", "r", " ", " ", " ", "E", "n", "d", " ", "A", "d", "d", "r", " ", " ", " ", " ", " ", " ", " ", "O", "f", "f", "s", "e", "t", " ", " ", "P", "e", "r", "m", "s", " ", " ", "P", "a", "t", "h">>, PermsDataLine>>, <<"\n">>)
     /\ parsed # NotRun) =>
    /\ parsed.kind = "Ok"
    /\ (offsets_done # "NotRun" /\ stacktrace[1].address = NumVal(<<"4", "0", "0", "5", "0", "0">>, 16)) =>
         /\ stacktrace[1].module = <<"/", "b", "i", "n", "/", "a", "p", "p">>
         /\ stacktrace[1].offset = NumVal(<<"5", "0", "0">>, 16)

\* C11, amended: with the data line in the debugger's column order
\* (start, end, size, offset, path), under either header, from_gdb succeeds
\* with the one region 0x400000-0x401000 at offset 0 of /bin/app, and
\* resolving 0x400500 against it yields module /bin/app and offset 0x500.
C11_GdbTextResolves ==
  \A h \in ResolveHeaders :
    (text = Join(<<h, GdbDataLine>>, <<"\n">>) /\ parsed # NotRun) =>
      /\ parsed = Ok(<<File(NumVal(<<"4", "0", "0", "0", "0", "0">>, 16), NumVal(<<"4", "0", "1", "0", "0", "0">>, 16), 0,
                           <<"/", "b", "i", "n", "/", "a", "p", "p">>)>>)
      /\ mappings = parsed.val
      /\ (offsets_done # "NotRun" /\ stacktrace[1].address = NumVal(<<"4", "0", "0", "5", "0", "0">>, 16)) =>
           /\ offsets_done = "Ok"
           /\ stacktrace[1].module = <<"/", "b", "i", "n", "/", "a", "p", "p">>
           /\ stacktrace[1].offset = NumVal(<<"5", "0", "0">>, 16)

\* The debugger's text has been parsed and 0x400500 resolved to /bin/app.
C11_Witness ==
  /\ text = Join(<<<<"S", "t", "a", "r", "t", " ", "A", "d", "d", "r", " ", " ", " ", "E", "n", "d", " ", "A", "d", "d", "r", " ", " ", " ", " ", " ", " ", " ", "S", "i", "z", "e", " ", " ", " ", " ", " ", "O", "f", "f", "s", "e", "t", " ", "o", "b", "j", "f", "i", "l", "e">>, GdbDataLine>>, <<"\n">>)
  /\ parsed.kind = "Ok"
  /\ offsets_done = "Ok"
  /\ stacktrace[1].address = NumVal(<<"4", "0", "0", "5", "0", "0">>, 16)
  /\ stacktrace[1].module = <<"/", "b", "i", "n", "/", "a", "p", "p">>
  /\ stacktrace[1].offset = NumVal(<<"5", "0", "0">>, 16)

(***************************************************************************)
(* Further claims about from_gdb and StacktraceEntry::new.                 *)
(***************************************************************************)
\* C12: every region of a table from_gdb returns has start < end.
C12_StartBelowEnd ==
  parsed.kind = "Ok" =>
    \A k \in 1..Len(parsed.val) : parsed.val[k].start < parsed.val[k].end

\* The frame of the line '#1 0x00000000004011a0 in foo (libfoo.so+0x1a0)'
\* with the given function: address 0x4011a0, module libfoo.so, offset
\* 0x1a0, no debug location.
FooFrame(function) ==
  [address |-> NumVal(<<"4", "0", "1", "1", "a", "0">>, 16), function |-> function,
   module |-> <<"l", "i", "b", "f", "o", "o", ".", "s", "o">>, offset |-> NumVal(<<"1", "a", "0">>, 16),
   debug |-> DefaultDebugInfo]

\* C13, as stated: the line parses to the frame with an empty function.
C13_FooLineNoFunction ==
  (text = AsanFooLine /\ parsed # NotRun) => parsed = Ok(<<FooFrame(<<>>)>>)

\* C13, amended: the line is decided by the first expression and parses
\* to the frame with function foo, wherever it stands in a trace that
\* parses.
C13_FooLineParsed ==
  /\ Captures(re_asan_module, 4, AsanFooLine).some
  /\ (text = AsanFooLine /\ parsed # NotRun) => parsed.kind = "Ok"
  /\ parsed.kind = "Ok" =>
       \A k \in 1..Len(parsed.val) :
         TrimmedLines(text)[k] = AsanFooLine => parsed.val[k] = FooFrame(<<"f", "o", "o">>)

\* The line has been parsed, as the second frame of a trace.
C13_Witness ==
  /\ parsed.kind = "Ok"
  /\ Len(parsed.val) = 2
  /\ TrimmedLines(text)[2] = AsanFooLine
  /\ parsed.val[2].function = <<"f", "o", "o">>
  /\ parsed.val[2].module = <<"l", "i", "b", "f", "o", "o", ".", "s", "o">>

====
